---- MODULE Spec2Model ----
(***************************************************************************)
(* The soda-sorting game (App component): slot board, move executor,       *)
(* scorer, history, progression, records and the delayed win callback.     *)
(* Every handler of the component is one action; the state is the          *)
(* component's useState cells, the two localStorage keys, the drag data    *)
(* of a mouse gesture and the queue of pending setTimeout callbacks.       *)
(* Array indices are 0-based in the data (as in the source) and sequences  *)
(* are 1-based, so slot i of the source is element i + 1 of currentSlots.  *)
(***************************************************************************)
EXTENDS Integers, Sequences, FiniteSets

\* ------------------------------------------------------------------ bounds
\* The catalog of a run is a prefix of the catalog of constants.ts: NumBrands
\* entries where every behaviour is explored, one more where behaviours are
\* explored up to MaxSteps inputs. The initial difficulty is scaled down with it.
NumBrands == 2
MaxSteps == 10
MaxScoreLen == 3
DEFAULT_GAME_SIZE == 1
MaxHistory == 2
MaxPending == 2
MaxRecords == 1
MaxGestures == 1
MaxClock == 4
MaxSortLen == 3
MaxSortAttempts == 2
MaxSortDuration == 1
GenBrands == 5

\* --------------------------------------------------------------- constants
BrandIds ==
  <<"cola", "lime", "orange", "grape", "water",
    "energy", "peach", "coffee", "mint", "berry">>

NULL == "null"
UNDEFINED == "undefined"
HOLE == "hole"

\* ----------------------------------------------------------------- helpers
Range(s) == {s[i] : i \in 1..Len(s)}

Min2(a, b) == IF a < b THEN a ELSE b

\* Array.prototype.slice(0, n) on a sequence
Slice(s, n) == SubSeq(s, 1, Min2(n, Len(s)))

\* [...arr]: a dense copy, holes become undefined
Spread(arr) == [i \in 1..Len(arr) |-> IF arr[i] = HOLE THEN UNDEFINED ELSE arr[i]]

\* arr[i] read, 0-based: out of range and holes read as undefined
ArrGet(arr, i) ==
  IF i >= 0 /\ i < Len(arr)
    THEN (IF arr[i + 1] = HOLE THEN UNDEFINED ELSE arr[i + 1])
    ELSE UNDEFINED

\* arr[i] = v, 0-based: writing past the end extends the array with holes
ArrSet(arr, i, v) ==
  IF i < Len(arr)
    THEN [arr EXCEPT ![i + 1] = v]
    ELSE arr \o [k \in 1..(i - Len(arr)) |-> HOLE] \o <<v>>

\* mutant: only the first cell is examined
SomeNull_FirstOnly(arr) == Len(arr) > 0 /\ arr[1] = NULL

\* arr.some(s => s === null)
SomeNull(arr) == \E i \in 1..Len(arr) : arr[i] = NULL

\* arr.indexOf(null), 0-based, -1 when absent
IndexOfNull(arr) ==
  IF SomeNull(arr)
    THEN (CHOOSE i \in 1..Len(arr) :
            arr[i] = NULL /\ \A j \in 1..(i - 1) : arr[j] # NULL) - 1
    ELSE -1

\* mutant: the element is written over its neighbour instead of inserted
InsertAt_Overwrites(s, k, x) ==
  IF k < Len(s) THEN [s EXCEPT ![k + 1] = x] \o <<x>> ELSE s \o <<x>>

\* the element x put at place k (0-based) of s, the later elements moved up
InsertAt(s, k, x) == SubSeq(s, 1, k) \o <<x>> \o SubSeq(s, k + 1, Len(s))

RECURSIVE SortOutcomes(_, _)
\* Array.prototype.sort on a short array: each element of `rest` in turn is
\* inserted into the sorted prefix `done` at the place the comparator's
\* answers lead to; the comparator answers at random, so at any place
SortOutcomes(done, rest) ==
  IF rest = <<>> THEN {done}
  ELSE UNION {SortOutcomes(InsertAt(done, k, Head(rest)), Tail(rest)) :
                k \in 0..Len(done)}

\* [...list].sort(() => Math.random() - 0.5)
Shuffle(list) == SortOutcomes(<<>>, list)

\* ------------------------------------------------------------------- state
VARIABLES
  catalogSize,       \* number of catalog entries of this run (never changes)
  steps,             \* inputs handled so far, where they are counted
  gameSize,          \* useState gameSize
  targetSequence,    \* useState targetSequence
  currentSlots,      \* useState currentSlots
  history,           \* useState history, newest entry first
  gameStatus,        \* useState gameStatus: "playing" | "won"
  records,           \* useState records
  maxUnlockedLevel,  \* useState maxUnlockedLevel
  showWinModal,      \* useState showWinModal
  showLevelMenu,     \* useState showLevelMenu
  touchDragItem,     \* useState touchDragItem (touchDragPos is set and cleared with it)
  dataTransfer,      \* drag data of the mouse gesture in progress
  timers,            \* pending setTimeout callbacks, in scheduling order
  storedMaxLevel,    \* localStorage 'soda_sort_max_level': a string of characters
  storedRecords,     \* localStorage 'soda_sort_records'
  storage,           \* "ok" | "unavailable" (every access throws) | "full" (setItem throws)
  recordsShape,      \* "array" while `records` holds a list, "other" otherwise
  mountState,        \* "constructed" | "mounted" | "crashed" (the tree was unmounted)
  now,               \* Date.now(), in seconds
  startTime,         \* useState startTime, in seconds; 0 until it is first set
  elapsedTime,       \* useState elapsedTime
  showInstructions,  \* useState showInstructions
  recordsPanel       \* useState showRecords, and the rows the records modal lists

\* the state of the program
appVars ==
  <<gameSize, targetSequence, currentSlots, history, gameStatus, records,
    maxUnlockedLevel, showWinModal, showLevelMenu, touchDragItem, dataTransfer,
    timers, storedMaxLevel, storedRecords>>

\* the clock, the timer cells and the two informational modals
timerVars == <<now, startTime, elapsedTime, showInstructions, recordsPanel>>

vars == <<appVars, catalogSize, steps, storage, recordsShape, mountState, timerVars>>

BRANDS == SubSeq(BrandIds, 1, catalogSize)

gameVars == <<gameSize, targetSequence, history, gameStatus, records,
              maxUnlockedLevel, showWinModal, showLevelMenu, timers,
              storedMaxLevel, storedRecords>>

\* no gesture: touchDragItem === null, empty drag data
NoItem == [source |-> "none", brandId |-> NULL, index |-> -1]

\* no mouse drag in progress: every getData reads ""
NoData == [source |-> "", brandId |-> "", index |-> <<>>]

\* { source, brandId, index }; index -1 stands for an absent index
Item(source, brandId, index) ==
  [source |-> source, brandId |-> brandId, index |-> index]

\* ----------------------------------------------------------- derived state
activeBrands == Slice(BRANDS, gameSize)

availableInventory ==
  SelectSeq(activeBrands, LAMBDA b : b \notin Range(Spread(currentSlots)))

\* A full-screen modal (win modal, level menu, instructions, records) lies
\* over the table
WinModalShown == gameStatus = "won" /\ showWinModal
ModalOpen == WinModalShown \/ showLevelMenu \/ showInstructions \/ recordsPanel.shown

\* ------------------------------------------------------------ localStorage
\* Stored strings are sequences of characters; the absent key reads as the
\* empty string (both are falsy in `if (saved)`).
Digits == <<"0", "1", "2", "3", "4", "5", "6", "7", "8", "9">>

IsDigit(c) == \E d \in 1..10 : Digits[d] = c

DigitVal(c) == (CHOOSE d \in 1..10 : Digits[d] = c) - 1

RECURSIVE natToString(_)
natToString(n) ==
  IF n < 10 THEN <<Digits[n + 1]>>
  ELSE natToString(n \div 10) \o <<Digits[(n % 10) + 1]>>

\* Number.prototype.toString()
toString(n) == IF n < 0 THEN <<"-">> \o natToString(0 - n) ELSE natToString(n)

RECURSIVE DigitsValue(_, _)
\* value of the longest prefix of digits of s, continuing from acc
DigitsValue(s, acc) ==
  IF s = <<>> \/ ~IsDigit(Head(s)) THEN acc
  ELSE DigitsValue(Tail(s), acc * 10 + DigitVal(Head(s)))

\* parseInt(s, 10): optional sign, then the longest prefix of digits; NaN
\* when there is no digit
parseInt(s) ==
  LET neg  == s # <<>> /\ Head(s) = "-"
      body == IF s # <<>> /\ Head(s) \in {"-", "+"} THEN Tail(s) ELSE s
  IN IF body = <<>> \/ ~IsDigit(Head(body))
       THEN [nan |-> TRUE, val |-> 0]
       ELSE [nan |-> FALSE,
             val |-> IF neg THEN 0 - DigitsValue(body, 0) ELSE DigitsValue(body, 0)]

\* JSON.stringify(records): the text of an array of records
JSONstringify(recs) == [kind |-> "array", value |-> recs]

PriorRecord ==
  [attempts |-> 1, durationSeconds |-> 0, difficulty |-> DEFAULT_GAME_SIZE,
   targetSequence |-> Slice(BRANDS, DEFAULT_GAME_SIZE)]

NoRecordsSaved == [kind |-> "absent", value |-> <<>>]

\* text that JSON.parse rejects
MalformedSaved == [kind |-> "malformed", value |-> <<>>]

\* text that parses to a value that is no list (an object, a number, null)
ObjectSaved == [kind |-> "object", value |-> <<>>]

\* localStorage.setItem throws (quota exceeded, or no storage at all)
SetItemThrows == storage # "ok"

\* contents the two keys may hold when the page is opened: nothing; a level
\* below the floor; an earlier session's record, beside a level that is no
\* number or a level above the catalog
SavedStates ==
  {[records |-> NoRecordsSaved, level |-> <<>>],
   [records |-> NoRecordsSaved, level |-> toString(0)],
   [records |-> JSONstringify(<<PriorRecord>>), level |-> <<"x">>],
   [records |-> JSONstringify(<<PriorRecord>>), level |-> toString(Len(BRANDS) + 1)]}

\* the contents the step-bounded runs start from
DeepSavedStates ==
  {[records |-> NoRecordsSaved, level |-> <<>>],
   [records |-> NoRecordsSaved, level |-> toString(Len(BRANDS) + 1)]}

\* -------------------------------------------------------------- initGame
\* the target and the board a call initGame(size) installs
NewGames(size) ==
  LET safeSize            == Min2(size, Len(BRANDS))
      currentActiveBrands == Slice(BRANDS, safeSize)
  IN {[targetSequence |-> p, currentSlots |-> [i \in 1..safeSize |-> NULL]] :
        p \in Shuffle(currentActiveBrands)}

initGame(size) ==
  \E g \in NewGames(size) :
    /\ targetSequence' = g.targetSequence
    /\ currentSlots' = g.currentSlots
    /\ history' = <<>>
    /\ gameStatus' = "playing"
    /\ showWinModal' = FALSE
    /\ showLevelMenu' = FALSE
    /\ startTime' = now
    /\ elapsedTime' = 0

\* ------------------------------------------------------------ mount effect
MountRecords(saved) == IF saved.kind = "array" THEN saved.value ELSE <<>>

MountMaxLevel(saved) ==
  IF saved # <<>> /\ ~parseInt(saved).nan
    THEN Min2(parseInt(saved).val, Len(BRANDS))
    ELSE DEFAULT_GAME_SIZE

\* the state after the mount effect, for given contents of the two keys
Mount(saved) ==
  /\ storedRecords = saved.records
  /\ storedMaxLevel = saved.level
  /\ records = MountRecords(storedRecords)
  /\ maxUnlockedLevel = MountMaxLevel(storedMaxLevel)
  /\ gameSize = DEFAULT_GAME_SIZE
  /\ \E g \in NewGames(DEFAULT_GAME_SIZE) :
       /\ targetSequence = g.targetSequence
       /\ currentSlots = g.currentSlots
  /\ history = <<>>
  /\ gameStatus = "playing"
  /\ showWinModal = FALSE
  /\ showLevelMenu = FALSE
  /\ startTime = now
  /\ elapsedTime = 0
  /\ touchDragItem = NoItem
  /\ dataTransfer = NoData
  /\ timers = <<>>

\* ------------------------------------------------------------ executeMove
\* the array executeMove passes to setCurrentSlots
executeMove(source, sourceBrandId, sourceIndex, targetType, targetIndex) ==
  LET newSlots == Spread(currentSlots)
  IN IF targetType = "slot" /\ targetIndex >= 0
       THEN IF source = "inventory"
              THEN ArrSet(newSlots, targetIndex, sourceBrandId)
            ELSE IF source = "slot" /\ sourceIndex >= 0
              THEN LET existingAtTarget == ArrGet(newSlots, targetIndex)
                   IN ArrSet(ArrSet(newSlots, targetIndex, sourceBrandId),
                             sourceIndex, existingAtTarget)
            ELSE newSlots
     ELSE IF targetType = "inventory" /\ source = "slot" /\ sourceIndex >= 0
       THEN ArrSet(newSlots, sourceIndex, NULL)
     ELSE newSlots

\* the cans a gesture or a click can start from: an inventory can, or the
\* can of a filled slot
InventoryCans == {Item("inventory", b, -1) : b \in Range(availableInventory)}

SlotCans ==
  {Item("slot", ArrGet(currentSlots, i), i) :
     i \in {j \in 0..(gameSize - 1) :
              ArrGet(currentSlots, j) \notin {NULL, UNDEFINED}}}

\* gestures in progress: the mouse drag and the touch
MouseDragging == IF dataTransfer # NoData THEN 1 ELSE 0

\* ------------------------------------------------------- mouse drag and drop
handleDragStart(item) ==
  /\ ~ModalOpen
  /\ dataTransfer = NoData
  /\ (IF touchDragItem # NoItem THEN 1 ELSE 0) < MaxGestures
  /\ item \in InventoryCans \cup SlotCans
  /\ IF gameStatus # "playing"
       THEN UNCHANGED dataTransfer
       ELSE dataTransfer' =
              [source |-> item.source, brandId |-> item.brandId,
               index |-> IF item.index >= 0 THEN toString(item.index) ELSE <<>>]
  /\ UNCHANGED <<currentSlots, touchDragItem>>
  /\ UNCHANGED gameVars

\* the index a drop handler reads back from the drag data
DropSourceIndex ==
  IF dataTransfer.index # <<>> THEN parseInt(dataTransfer.index).val ELSE -1

handleDropOnSlot(targetIndex) ==
  /\ ~ModalOpen
  /\ dataTransfer # NoData
  /\ targetIndex \in 0..(gameSize - 1)
  /\ IF gameStatus # "playing"
       THEN UNCHANGED currentSlots
       ELSE currentSlots' =
              executeMove(dataTransfer.source, dataTransfer.brandId,
                          DropSourceIndex, "slot", targetIndex)
  /\ dataTransfer' = NoData
  /\ UNCHANGED touchDragItem
  /\ UNCHANGED gameVars

handleDropOnInventory ==
  /\ ~ModalOpen
  /\ dataTransfer # NoData
  /\ IF gameStatus # "playing"
       THEN UNCHANGED currentSlots
       ELSE currentSlots' =
              executeMove(dataTransfer.source, dataTransfer.brandId,
                          DropSourceIndex, "inventory", -1)
  /\ dataTransfer' = NoData
  /\ UNCHANGED touchDragItem
  /\ UNCHANGED gameVars

\* the drag ends on no drop zone: no handler runs
DragCancel ==
  /\ dataTransfer # NoData
  /\ dataTransfer' = NoData
  /\ UNCHANGED <<currentSlots, touchDragItem>>
  /\ UNCHANGED gameVars

\* ------------------------------------------------------------ touch gestures
handleTouchStart(item) ==
  /\ ~ModalOpen
  /\ MouseDragging < MaxGestures
  /\ item \in InventoryCans \cup SlotCans
  /\ IF gameStatus # "playing"
       THEN UNCHANGED touchDragItem
       ELSE touchDragItem' = item
  /\ UNCHANGED <<currentSlots, dataTransfer>>
  /\ UNCHANGED gameVars

\* the element the touch started on is still rendered, so its onTouchEnd runs
TouchSourceMounted ==
  \/ touchDragItem.source = "inventory"
       /\ touchDragItem.brandId \in Range(availableInventory)
  \/ touchDragItem.source = "slot"
       /\ touchDragItem.index < gameSize

\* what document.elementFromPoint finds under the finger: a slot, the
\* inventory tray, or neither (a modal covers both)
TouchTargets ==
  IF ModalOpen THEN {[type |-> "none", index |-> -1]}
  ELSE {[type |-> "none", index |-> -1], [type |-> "inventory", index |-> -1]}
       \cup {[type |-> "slot", index |-> i] : i \in 0..(gameSize - 1)}

handleTouchEnd(target) ==
  /\ touchDragItem # NoItem
  /\ TouchSourceMounted
  /\ target \in TouchTargets
  /\ touchDragItem' = NoItem
  /\ IF target.type = "none"
       THEN UNCHANGED currentSlots
       ELSE currentSlots' =
              executeMove(touchDragItem.source, touchDragItem.brandId,
                          touchDragItem.index, target.type, target.index)
  /\ UNCHANGED dataTransfer
  /\ UNCHANGED gameVars

\* ------------------------------------------------------------ click fallback
handleInventoryClick(brandId) ==
  /\ ~ModalOpen
  /\ brandId \in Range(availableInventory)
  /\ IF gameStatus # "playing"
       THEN UNCHANGED currentSlots
       ELSE LET firstEmptyIndex == IndexOfNull(currentSlots)
            IN IF firstEmptyIndex # -1
                 THEN currentSlots' = ArrSet(Spread(currentSlots), firstEmptyIndex, brandId)
                 ELSE UNCHANGED currentSlots
  /\ UNCHANGED <<touchDragItem, dataTransfer>>
  /\ UNCHANGED gameVars

handleSlotClick(index) ==
  /\ ~ModalOpen
  /\ index \in 0..(gameSize - 1)
  /\ IF gameStatus # "playing"
       THEN UNCHANGED currentSlots
       ELSE IF ArrGet(currentSlots, index) # NULL
              THEN currentSlots' = ArrSet(Spread(currentSlots), index, NULL)
              ELSE UNCHANGED currentSlots
  /\ UNCHANGED <<touchDragItem, dataTransfer>>
  /\ UNCHANGED gameVars

\* ---------------------------------------------------------- checkSolution
RECURSIVE CountFrom(_, _, _)
\* the forEach of checkSolution from position index on: holes are skipped,
\* a position past the end of the target reads undefined
CountFrom(currentGuess, target, index) ==
  IF index >= Len(currentGuess) THEN 0
  ELSE (IF currentGuess[index + 1] # HOLE
           /\ currentGuess[index + 1] = ArrGet(target, index)
          THEN 1 ELSE 0)
       + CountFrom(currentGuess, target, index + 1)

\* mutant: the comparison starts at the second position
CorrectCount_SkipsFirst(currentGuess, target) == CountFrom(currentGuess, target, 1)

CorrectCount(currentGuess, target) == CountFrom(currentGuess, target, 0)

\* mutant: the new entry replaces the log
NewHistory_DropsOld(newEntry, hist) == <<newEntry>>

\* [newEntry, ...history]
NewHistory(newEntry, hist) == <<newEntry>> \o hist

\* mutant: a win unlocks whenever a higher level exists
Unlocks_AnyWin(size, maxLevel) == size < Len(BRANDS)

\* the unlock test of checkSolution
Unlocks(size, maxLevel) == size = maxLevel /\ size < Len(BRANDS)

\* mutant: the catalog size is not consulted
NextMaxLevel_NoCap(size, maxLevel) ==
  IF size = maxLevel THEN size + 1 ELSE maxLevel

\* the level the progression holds after a win at `size`
NextMaxLevel(size, maxLevel) ==
  IF Unlocks(size, maxLevel) THEN size + 1 ELSE maxLevel

\* mutant: every scored confirm counts as a win
IsWin_AnyConfirm(correctCount, size) == correctCount >= 0

\* the win condition of checkSolution
IsWin(correctCount, size) == correctCount = size

\* the closure the delayed win callback keeps: the values of the render in
\* which checkSolution ran
WinClosure(newHistory) ==
  [attempts |-> Len(newHistory), durationSeconds |-> elapsedTime,
   difficulty |-> gameSize, targetSequence |-> Spread(targetSequence),
   records |-> records]

checkSolution ==
  IF SomeNull(currentSlots)
    THEN UNCHANGED appVars
    ELSE
      LET currentGuess == currentSlots
          correctCount == CorrectCount(currentGuess, targetSequence)
          newEntry     == [arrangement |-> Spread(currentGuess),
                           correctCount |-> correctCount]
          newHistory   == NewHistory(newEntry, history)
      IN /\ Len(history) < MaxHistory
         /\ history' = newHistory
         /\ IF IsWin(correctCount, gameSize)
              THEN /\ Len(timers) < MaxPending
                   /\ Len(records) < MaxRecords
                   /\ maxUnlockedLevel' = NextMaxLevel(gameSize, maxUnlockedLevel)
                   /\ storedMaxLevel' =
                        IF Unlocks(gameSize, maxUnlockedLevel) /\ ~SetItemThrows
                          THEN toString(gameSize + 1)
                          ELSE storedMaxLevel
                   /\ timers' =
                        IF Unlocks(gameSize, maxUnlockedLevel) /\ SetItemThrows
                          THEN timers
                          ELSE Append(timers, WinClosure(newHistory))
              ELSE UNCHANGED <<maxUnlockedLevel, storedMaxLevel, timers>>
         /\ UNCHANGED <<gameSize, targetSequence, currentSlots, gameStatus,
                        records, showWinModal, showLevelMenu, touchDragItem,
                        dataTransfer, storedRecords>>

\* the confirm button of the tray, and the small one shown beside the cans
ConfirmButtonRendered == Len(availableInventory) = 0 /\ gameStatus # "won"

ConfirmButtonDisabled == SomeNull(currentSlots)

MobileConfirmRendered == Len(availableInventory) > 0 /\ ~SomeNull(currentSlots)

\* a press on a confirm control; a disabled button delivers no click
ConfirmClick ==
  /\ ~ModalOpen
  /\ ConfirmButtonRendered \/ MobileConfirmRendered
  /\ IF ConfirmButtonRendered /\ ConfirmButtonDisabled
       THEN UNCHANGED appVars
       ELSE checkSolution

\* the callback of setTimeout(..., 500): timers of equal delay run in the
\* order they were set
WinCallback ==
  /\ timers # <<>>
  /\ LET c             == Head(timers)
         newRecord      == [attempts |-> c.attempts,
                            durationSeconds |-> c.durationSeconds,
                            difficulty |-> c.difficulty,
                            targetSequence |-> c.targetSequence]
         updatedRecords == Append(c.records, newRecord)
     IN /\ gameStatus' = "won"
        /\ showWinModal' = TRUE
        /\ records' = updatedRecords
        /\ storedRecords' =
             IF SetItemThrows THEN storedRecords ELSE JSONstringify(updatedRecords)
  /\ timers' = Tail(timers)
  /\ UNCHANGED <<gameSize, targetSequence, currentSlots, history,
                 maxUnlockedLevel, showLevelMenu, touchDragItem, dataTransfer,
                 storedMaxLevel>>

\* --------------------------------------------------------------- lifecycle
lifecycleFrame ==
  UNCHANGED <<records, maxUnlockedLevel, touchDragItem, dataTransfer, timers,
              storedMaxLevel, storedRecords>>

\* the floating restart button
Restart ==
  /\ ~ModalOpen
  /\ initGame(gameSize)
  /\ UNCHANGED gameSize
  /\ lifecycleFrame

\* the win modal is the topmost layer
WinModalOnTop == WinModalShown /\ ~showLevelMenu

handleNextLevel ==
  /\ WinModalOnTop
  /\ gameSize < Len(BRANDS) /\ ~(gameSize < maxUnlockedLevel)
  /\ IF gameSize < Len(BRANDS)
       THEN /\ gameSize' = gameSize + 1
            /\ initGame(gameSize + 1)
       ELSE UNCHANGED <<gameSize, targetSequence, currentSlots, history,
                        gameStatus, showWinModal, showLevelMenu>>
  /\ lifecycleFrame

\* the "next level (unlocked)" button of the win modal
NextUnlockedLevel ==
  /\ WinModalOnTop
  /\ gameSize < Len(BRANDS) /\ gameSize < maxUnlockedLevel
  /\ gameSize' = gameSize + 1
  /\ initGame(gameSize + 1)
  /\ lifecycleFrame

handleRetryLevel ==
  /\ WinModalOnTop
  /\ initGame(gameSize)
  /\ UNCHANGED gameSize
  /\ lifecycleFrame

\* mutant: the menu starts at level 0
MenuLevels_FromZero == 0..Len(BRANDS)

\* the levels the level menu lists
MenuLevels == DEFAULT_GAME_SIZE..Len(BRANDS)

\* mutant: the level after the frontier is open too
LevelUnlocked_OneAhead(level, maxLevel) == level <= maxLevel + 1

\* isUnlocked, and the test of handleSelectLevel
LevelUnlocked(level, maxLevel) == level <= maxLevel

handleSelectLevel(level) ==
  /\ showLevelMenu
  /\ level \in MenuLevels
  /\ IF LevelUnlocked(level, maxUnlockedLevel)
       THEN /\ gameSize' = level
            /\ initGame(level)
       ELSE UNCHANGED <<gameSize, targetSequence, currentSlots, history,
                        gameStatus, showWinModal, showLevelMenu, startTime,
                        elapsedTime>>
  /\ lifecycleFrame

OpenLevelMenu ==
  /\ ~ModalOpen
  /\ showLevelMenu' = TRUE
  /\ UNCHANGED <<gameSize, targetSequence, currentSlots, history, gameStatus,
                 records, maxUnlockedLevel, showWinModal, touchDragItem,
                 dataTransfer, timers, storedMaxLevel, storedRecords>>

CloseLevelMenu ==
  /\ showLevelMenu
  /\ showLevelMenu' = FALSE
  /\ UNCHANGED <<gameSize, targetSequence, currentSlots, history, gameStatus,
                 records, maxUnlockedLevel, showWinModal, touchDragItem,
                 dataTransfer, timers, storedMaxLevel, storedRecords>>

CloseWinModal ==
  /\ WinModalOnTop
  /\ showWinModal' = FALSE
  /\ UNCHANGED <<gameSize, targetSequence, currentSlots, history, gameStatus,
                 records, maxUnlockedLevel, showLevelMenu, touchDragItem,
                 dataTransfer, timers, storedMaxLevel, storedRecords>>

\* ------------------------------------------------------------ specification
\* every can a gesture can carry
Cans ==
  {Item("inventory", b, -1) : b \in Range(BRANDS)}
  \cup {Item("slot", b, i) : b \in Range(BRANDS), i \in 0..(Len(BRANDS) - 1)}

MoveStep ==
  \/ \E t \in 0..(Len(BRANDS) - 1) : handleDropOnSlot(t)
  \/ handleDropOnInventory
  \/ \E target \in TouchTargets : handleTouchEnd(target)
  \/ \E b \in Range(BRANDS) : handleInventoryClick(b)
  \/ \E i \in 0..(Len(BRANDS) - 1) : handleSlotClick(i)

GestureStep ==
  \/ \E item \in Cans : handleDragStart(item)
  \/ DragCancel
  \/ \E item \in Cans : handleTouchStart(item)

LifecycleStep ==
  \/ Restart
  \/ handleNextLevel
  \/ NextUnlockedLevel
  \/ handleRetryLevel
  \/ \E level \in MenuLevels : handleSelectLevel(level)
  \/ OpenLevelMenu
  \/ CloseLevelMenu
  \/ CloseWinModal

\* one input: a handler or a callback runs
Step ==
  \/ MoveStep
  \/ GestureStep
  \/ ConfirmClick
  \/ WinCallback
  \/ LifecycleStep

\* the records modal is not shown
ClosedPanel == [shown |-> FALSE, rows |-> <<>>]

\* storage works, the mount effect has completed and the instructions have
\* been closed
Healthy ==
  /\ storage = "ok"
  /\ recordsShape = "array"
  /\ mountState = "mounted"
  /\ now = 1
  /\ showInstructions = FALSE
  /\ recordsPanel = ClosedPanel

\* every behaviour over a catalog of NumBrands entries
Init ==
  /\ catalogSize = NumBrands
  /\ steps = 0
  /\ Healthy
  /\ \E saved \in SavedStates : Mount(saved)

\* the component is rendered: its handlers and callbacks can run
Mounted == mountState = "mounted"

Rigid == UNCHANGED <<catalogSize, storage, recordsShape, mountState>>

\* the clock stands still and the informational modals stay as they are
Paused == UNCHANGED timerVars

Uncounted == Mounted /\ Rigid /\ Paused /\ UNCHANGED steps

Next ==
  \/ Uncounted /\ (\E t \in 0..(Len(BRANDS) - 1) : handleDropOnSlot(t))
  \/ Uncounted /\ (handleDropOnInventory)
  \/ Uncounted /\ (\E target \in TouchTargets : handleTouchEnd(target))
  \/ Uncounted /\ (\E b \in Range(BRANDS) : handleInventoryClick(b))
  \/ Uncounted /\ (\E i \in 0..(Len(BRANDS) - 1) : handleSlotClick(i))
  \/ Uncounted /\ (\E item \in Cans : handleDragStart(item))
  \/ Uncounted /\ (DragCancel)
  \/ Uncounted /\ (\E item \in Cans : handleTouchStart(item))
  \/ Uncounted /\ (ConfirmClick)
  \/ Uncounted /\ (WinCallback)
  \/ Uncounted /\ (Restart)
  \/ Uncounted /\ (handleNextLevel)
  \/ Uncounted /\ (NextUnlockedLevel)
  \/ Uncounted /\ (handleRetryLevel)
  \/ Uncounted /\ (\E level \in MenuLevels : handleSelectLevel(level))
  \/ Uncounted /\ (OpenLevelMenu)
  \/ Uncounted /\ (CloseLevelMenu)
  \/ Uncounted /\ (CloseWinModal)

Spec == Init /\ [][Next]_vars

\* the behaviours of at most MaxSteps inputs over a catalog one entry longer
InitDeep ==
  /\ catalogSize = NumBrands + 1
  /\ steps = 0
  /\ Healthy
  /\ \E saved \in DeepSavedStates : Mount(saved)

Counted == Mounted /\ Rigid /\ Paused /\ steps < MaxSteps /\ steps' = steps + 1

NextDeep ==
  \/ Counted /\ (\E t \in 0..(Len(BRANDS) - 1) : handleDropOnSlot(t))
  \/ Counted /\ (handleDropOnInventory)
  \/ Counted /\ (\E target \in TouchTargets : handleTouchEnd(target))
  \/ Counted /\ (\E b \in Range(BRANDS) : handleInventoryClick(b))
  \/ Counted /\ (\E i \in 0..(Len(BRANDS) - 1) : handleSlotClick(i))
  \/ Counted /\ (\E item \in Cans : handleDragStart(item))
  \/ Counted /\ (DragCancel)
  \/ Counted /\ (\E item \in Cans : handleTouchStart(item))
  \/ Counted /\ (ConfirmClick)
  \/ Counted /\ (WinCallback)
  \/ Counted /\ (Restart)
  \/ Counted /\ (handleNextLevel)
  \/ Counted /\ (NextUnlockedLevel)
  \/ Counted /\ (handleRetryLevel)
  \/ Counted /\ (\E level \in MenuLevels : handleSelectLevel(level))
  \/ Counted /\ (OpenLevelMenu)
  \/ Counted /\ (CloseLevelMenu)
  \/ Counted /\ (CloseWinModal)

SpecDeep == InitDeep /\ [][NextDeep]_vars

\* the behaviours in which the delayed win callback, once set, is run
SpecLive == Init /\ [][Next]_vars /\ WF_vars(Uncounted /\ WinCallback)

\* ------------------------------------------------- startup and storage faults
\* the state of the first render: every useState cell at its initial value
Constructed ==
  /\ gameSize = DEFAULT_GAME_SIZE
  /\ targetSequence = <<>>
  /\ currentSlots = <<>>
  /\ history = <<>>
  /\ gameStatus = "playing"
  /\ records = <<>>
  /\ recordsShape = "array"
  /\ maxUnlockedLevel = DEFAULT_GAME_SIZE
  /\ showWinModal = FALSE
  /\ showLevelMenu = FALSE
  /\ touchDragItem = NoItem
  /\ dataTransfer = NoData
  /\ timers = <<>>
  /\ mountState = "constructed"
  /\ now = 1
  /\ startTime = 0
  /\ elapsedTime = 0
  /\ showInstructions = TRUE
  /\ recordsPanel = ClosedPanel

\* the storage the page is opened with: working storage holding text that is
\* no JSON beside a level that is no number, JSON that is no list, or a
\* level below the floor; no storage at all; storage that takes no more writes
FailureCases ==
  {[storage |-> "ok", records |-> MalformedSaved, level |-> <<"x">>],
   [storage |-> "ok", records |-> ObjectSaved, level |-> <<>>],
   [storage |-> "ok", records |-> NoRecordsSaved, level |-> toString(0)],
   [storage |-> "unavailable", records |-> NoRecordsSaved, level |-> <<>>],
   [storage |-> "full", records |-> NoRecordsSaved, level |-> <<>>]}

\* the mount effect: an exception thrown by the effect, or by the render
\* that follows it, unmounts the component tree
MountEffect ==
  /\ mountState = "constructed"
  /\ IF storage = "unavailable"
       THEN /\ mountState' = "crashed"
            /\ UNCHANGED <<appVars, recordsShape, startTime, elapsedTime>>
       ELSE /\ records' = MountRecords(storedRecords)
            /\ recordsShape' =
                 IF storedRecords.kind = "object" THEN "other" ELSE "array"
            /\ maxUnlockedLevel' = MountMaxLevel(storedMaxLevel)
            /\ initGame(DEFAULT_GAME_SIZE)
            /\ mountState' =
                 IF storedRecords.kind = "object" THEN "crashed" ELSE "mounted"
            /\ UNCHANGED <<gameSize, touchDragItem, dataTransfer, timers,
                           storedMaxLevel, storedRecords>>
  /\ UNCHANGED <<catalogSize, steps, storage, now, showInstructions, recordsPanel>>

\* the close button and the start button of the instructions modal
CloseInstructions ==
  /\ showInstructions
  /\ showInstructions' = FALSE
  /\ startTime' = IF startTime = 0 THEN now ELSE startTime
  /\ UNCHANGED <<appVars, now, elapsedTime, recordsPanel>>

\* a step of the mounted component that is not counted and may move the
\* timer cells
Timed == Mounted /\ Rigid /\ UNCHANGED steps

InitFail ==
  /\ catalogSize = NumBrands
  /\ steps = 0
  /\ \E c \in FailureCases :
       /\ storage = c.storage
       /\ storedRecords = c.records
       /\ storedMaxLevel = c.level
  /\ Constructed

\* the mount effect, then at most MaxSteps inputs
NextFail ==
  \/ MountEffect
  \/ Timed /\ CloseInstructions
  \/ NextDeep

SpecFail == InitFail /\ [][NextFail]_vars

\* the scorer alone: checkSolution applied to every filled board and target
\* of equal length up to MaxScoreLen, and to the board of the spec's scenario
ScenarioBoard == <<"cola", "grape", "lime", "water", "energy">>

ScenarioTarget == <<"lime", "cola", "grape", "water", "energy">>

ScoreInputs ==
  {[board |-> ScenarioBoard, target |-> ScenarioTarget]}
  \cup UNION {{[board |-> b, target |-> t] :
                 b \in [1..n -> Range(SubSeq(BrandIds, 1, MaxScoreLen))],
                 t \in [1..n -> Range(SubSeq(BrandIds, 1, MaxScoreLen))]} :
              n \in 1..MaxScoreLen}

InitScore ==
  /\ catalogSize = Len(BrandIds)
  /\ steps = 0
  /\ Healthy
  /\ \E in \in ScoreInputs :
       /\ currentSlots = in.board
       /\ targetSequence = in.target
       /\ gameSize = Len(in.target)
  /\ history = <<>>
  /\ gameStatus = "playing"
  /\ records = <<>>
  /\ maxUnlockedLevel = DEFAULT_GAME_SIZE
  /\ showWinModal = FALSE
  /\ showLevelMenu = FALSE
  /\ touchDragItem = NoItem
  /\ dataTransfer = NoData
  /\ timers = <<>>
  /\ storedMaxLevel = <<>>
  /\ storedRecords = NoRecordsSaved
  /\ startTime = now
  /\ elapsedTime = 0

NextScore == Uncounted /\ checkSolution

SpecScore == InitScore /\ [][NextScore]_vars

\* the generator alone: initGame() called with every requested size from 1
\* to one more than a catalog of GenBrands entries
InitGen ==
  /\ catalogSize = GenBrands
  /\ steps = 0
  /\ Healthy
  /\ gameSize \in 1..(GenBrands + 1)
  /\ targetSequence = <<>>
  /\ currentSlots = <<>>
  /\ history = <<>>
  /\ gameStatus = "playing"
  /\ records = <<>>
  /\ maxUnlockedLevel = DEFAULT_GAME_SIZE
  /\ showWinModal = FALSE
  /\ showLevelMenu = FALSE
  /\ touchDragItem = NoItem
  /\ dataTransfer = NoData
  /\ timers = <<>>
  /\ storedMaxLevel = <<>>
  /\ storedRecords = NoRecordsSaved
  /\ startTime = now
  /\ elapsedTime = 0

NextGen == Uncounted /\ initGame(gameSize) /\ UNCHANGED gameSize /\ lifecycleFrame

SpecGen == InitGen /\ [][NextGen]_vars

\* ------------------------------------------------------------------ timer
\* the timer effect runs its interval
TimerRuns == gameStatus = "playing" /\ ~showInstructions /\ ~showLevelMenu

\* one second passes; a running interval then refreshes the elapsed time
Tick ==
  /\ Mounted /\ Rigid /\ UNCHANGED steps
  /\ now < MaxClock
  /\ now' = now + 1
  /\ elapsedTime' = IF TimerRuns THEN now' - startTime ELSE elapsedTime
  /\ UNCHANGED <<appVars, startTime, showInstructions, recordsPanel>>

\* the help button of the floating controls
OpenInstructions ==
  /\ ~ModalOpen
  /\ showInstructions' = TRUE
  /\ UNCHANGED <<appVars, now, startTime, elapsedTime, recordsPanel>>

\* a step that starts a game: initGame moves startTime and elapsedTime
Resets == Timed /\ UNCHANGED <<now, showInstructions, recordsPanel>>

\* the component has just mounted and shows the instructions; the clock runs
InitTimer ==
  /\ catalogSize = NumBrands
  /\ steps = 0
  /\ storage = "ok"
  /\ recordsShape = "array"
  /\ mountState = "mounted"
  /\ now = 1
  /\ showInstructions = TRUE
  /\ recordsPanel = ClosedPanel
  /\ \E saved \in SavedStates : Mount(saved)

NextTimer ==
  \/ Tick
  \/ Timed /\ CloseInstructions
  \/ Timed /\ OpenInstructions
  \/ Uncounted /\ OpenLevelMenu
  \/ Uncounted /\ CloseLevelMenu
  \/ Resets /\ Restart
  \/ Resets /\ (\E level \in MenuLevels : handleSelectLevel(level))
  \/ Resets /\ handleRetryLevel
  \/ Uncounted /\ (\E b \in Range(BRANDS) : handleInventoryClick(b))
  \/ Uncounted /\ ConfirmClick
  \/ Uncounted /\ WinCallback

SpecTimer == InitTimer /\ [][NextTimer]_vars

\* ---------------------------------------------------------- records modal
\* mutant: fewer attempts rank later
CompareRecords_AttemptsDescending(a, b) ==
  IF b.difficulty # a.difficulty THEN b.difficulty - a.difficulty
  ELSE IF a.attempts # b.attempts THEN b.attempts - a.attempts
  ELSE a.durationSeconds - b.durationSeconds

\* the comparator handed to sort: negative when a ranks before b
CompareRecords(a, b) ==
  IF b.difficulty # a.difficulty THEN b.difficulty - a.difficulty
  ELSE IF a.attempts # b.attempts THEN a.attempts - b.attempts
  ELSE a.durationSeconds - b.durationSeconds

\* Array.prototype.sort, a stable insertion by the comparator: the number of
\* elements of the sorted part that stay in front of x
RECURSIVE SortPlace(_, _)
SortPlace(done, x) ==
  IF done = <<>> \/ CompareRecords(x, done[Len(done)]) >= 0
    THEN Len(done)
    ELSE SortPlace(SubSeq(done, 1, Len(done) - 1), x)

RECURSIVE SortInto(_, _)
SortInto(done, rest) ==
  IF rest = <<>>
    THEN done
    ELSE LET x == Head(rest)
             k == SortPlace(done, x)
         IN SortInto(SubSeq(done, 1, k) \o <<x>> \o SubSeq(done, k + 1, Len(done)),
                     Tail(rest))

\* the sorted copy a render computes from the records; the record list holds
\* no holes, so its spread copy is the same list
sortedRecords == SortInto(<<>>, records)

\* the records button of the floating controls; the modal lists sortedRecords
OpenRecords ==
  /\ ~ModalOpen
  /\ recordsPanel' = [shown |-> TRUE, rows |-> sortedRecords]
  /\ UNCHANGED <<appVars, now, startTime, elapsedTime, showInstructions>>

\* the close button of the records modal
CloseRecords ==
  /\ recordsPanel.shown
  /\ recordsPanel' = ClosedPanel
  /\ UNCHANGED <<appVars, now, startTime, elapsedTime, showInstructions>>

\* record lists an earlier session may have stored
SortRecordValues ==
  {[attempts |-> a, durationSeconds |-> d, difficulty |-> g,
    targetSequence |-> Slice(BRANDS, g)] :
     a \in 1..MaxSortAttempts, d \in 0..MaxSortDuration,
     g \in DEFAULT_GAME_SIZE..Len(BRANDS)}

SortInputs ==
  UNION {[1..n -> SortRecordValues] : n \in 0..MaxSortLen}

\* the page is opened over a stored record list
InitSort ==
  /\ catalogSize = NumBrands
  /\ steps = 0
  /\ Healthy
  /\ \E rs \in SortInputs :
       Mount([records |-> JSONstringify(rs), level |-> toString(Len(BRANDS))])

NextSort ==
  \/ Timed /\ OpenRecords
  \/ Timed /\ CloseRecords

SpecSort == InitSort /\ [][NextSort]_vars

\* ------------------------------------------------------------------ claims
\* number of positions at which board and target hold the same item
MatchCount(board, target) ==
  Cardinality({i \in 1..Min2(Len(board), Len(target)) : board[i] = target[i]})

HasEmptySlot == \E i \in 1..Len(currentSlots) : currentSlots[i] = NULL

IsPrefix(a, b) == Len(a) <= Len(b) /\ SubSeq(b, 1, Len(a)) = a

\* a confirm that the scorer judged a full match
FullMatchConfirm ==
  /\ ConfirmClick
  /\ Len(history') = Len(history) + 1
  /\ Head(history').correctCount = gameSize

\* a confirm on a board without empty slot
AcceptedConfirm == ConfirmClick /\ ~HasEmptySlot

\* a step that (re)initialises the game
InitGameStep == \E size \in MenuLevels : initGame(size)

\* C1: no item id is in two slots of the board at once, and the inventory is
\* the active items minus the items on the board.
C1_BoardInvariant ==
  /\ \A i, j \in 1..Len(currentSlots) :
       (i # j /\ currentSlots[i] \in Range(BrandIds))
         => currentSlots[i] # currentSlots[j]
  /\ Range(availableInventory) = Range(activeBrands) \ Range(currentSlots)

\* C2: a move executed while the status is won leaves the board unchanged,
\* whichever input path it comes from.
C2_MoveWhileWonIsNoOp ==
  [][(gameStatus = "won" /\ MoveStep) => currentSlots' = currentSlots]_vars

\* C3: whenever the status is won, the history is not empty and its newest
\* entry is a full match against the current target.
C3_WonOnlyOnFullMatch ==
  gameStatus = "won" =>
    /\ history # <<>>
    /\ Head(history).correctCount = gameSize
    /\ MatchCount(Head(history).arrangement, targetSequence) = gameSize

\* C4: the records, in memory and persisted, only grow by appending at the
\* end: what was recorded stays, unchanged and in place.
C4_RecordsAppendOnly ==
  [][/\ IsPrefix(records, records')
     /\ storedRecords.kind = "array" =>
          /\ storedRecords'.kind = "array"
          /\ IsPrefix(storedRecords.value, storedRecords'.value)]_vars

\* C5: a full-match confirm at difficulty d with highest unlocked level m
\* leaves the level at d + 1 if d = m and d is below the catalog size, and
\* at m otherwise; the new level is what is persisted.
C5_UnlockRule ==
  [][FullMatchConfirm =>
       /\ maxUnlockedLevel' =
            (IF gameSize = maxUnlockedLevel /\ gameSize < catalogSize
               THEN gameSize + 1 ELSE maxUnlockedLevel)
       /\ maxUnlockedLevel' # maxUnlockedLevel =>
            parseInt(storedMaxLevel').val = maxUnlockedLevel']_vars

\* a game below the frontier was won after a restart, and the level kept
\* its value
C5_Witness ==
  /\ gameSize < maxUnlockedLevel
  /\ Len(history) = 1
  /\ Head(history).correctCount = gameSize
  /\ Len(timers) = 2

\* C6: the unlocked level never decreases; a step that changes it raises it
\* by exactly 1 and is a full-match confirm played at the unlocked level,
\* below the catalog size.
C6_UnlockMonotonic ==
  [][maxUnlockedLevel' # maxUnlockedLevel =>
       /\ maxUnlockedLevel' = maxUnlockedLevel + 1
       /\ gameSize = maxUnlockedLevel
       /\ maxUnlockedLevel < catalogSize
       /\ FullMatchConfirm]_vars

\* the winning board was confirmed twice and the level rose once
C6_Witness ==
  /\ Len(history) >= 2
  /\ \A k \in 1..Len(history) : history[k].correctCount = gameSize
  /\ gameSize = DEFAULT_GAME_SIZE
  /\ maxUnlockedLevel = DEFAULT_GAME_SIZE + 1

\* C7: an accepted confirm puts exactly one entry in front of the history
\* and leaves the earlier entries as they were; the history changes in no
\* other way except that a game initialisation empties it.
C7_HistoryAppendOnly ==
  [][/\ AcceptedConfirm =>
          /\ Len(history') = Len(history) + 1
          /\ Tail(history') = history
     /\ history' # history =>
          \/ history' # <<>> /\ Tail(history') = history /\ ConfirmClick
          \/ history' = <<>> /\ InitGameStep]_vars

\* two different attempts are in the history
C7_Witness ==
  /\ Len(history) >= 2
  /\ history[1].arrangement # history[2].arrangement

\* C8: the match count of every history entry is the number of positions
\* at which its snapshot equals the current target.
C8_HistoryMatchCounts ==
  \A k \in 1..Len(history) :
    history[k].correctCount = MatchCount(history[k].arrangement, targetSequence)

\* C9: the match count of a confirm on a filled board B against a target T
\* of equal length is the number of positions where they agree: Len(T)
\* when B = T, 0 when they differ everywhere, 2 for the scenario's board.
C9_ScoringCorrect ==
  (history # <<>> /\ Len(currentSlots) = Len(targetSequence)) =>
    LET count == Head(history).correctCount
    IN /\ Head(history).arrangement = currentSlots
       /\ count = MatchCount(currentSlots, targetSequence)
       /\ currentSlots = targetSequence => count = Len(targetSequence)
       /\ (\A i \in 1..Len(currentSlots) : currentSlots[i] # targetSequence[i])
            => count = 0
       /\ (currentSlots = ScenarioBoard /\ targetSequence = ScenarioTarget)
            => count = 2

\* the scenario's board was scored
C9_Witness ==
  /\ history # <<>>
  /\ currentSlots = ScenarioBoard
  /\ targetSequence = ScenarioTarget

\* C10: a confirm requested while a slot is empty changes nothing, and the
\* confirm button of the tray is disabled in that case.
C10_IncompleteConfirmRejected ==
  [][/\ (HasEmptySlot /\ ConfirmClick) => UNCHANGED appVars
     /\ (HasEmptySlot /\ ConfirmButtonRendered) => ConfirmButtonDisabled
     /\ \A k \in 1..Len(history') : NULL \notin Range(history'[k].arrangement)]_vars

\* the confirm button is shown over a board with an empty slot
C10_Witness ==
  /\ HasEmptySlot
  /\ ConfirmButtonRendered
  /\ ~ModalOpen

\* C11: a game initialisation with requested size n installs a target of
\* length min(n, catalog length) that holds exactly the first so many
\* catalog ids, each once, whatever the comparator answers.
C11_TargetIsPermutation ==
  [][LET n == Min2(gameSize, catalogSize)
     IN /\ Len(targetSequence') = n
        /\ Range(targetSequence') = {BrandIds[i] : i \in 1..n}
        /\ \A i, j \in 1..Len(targetSequence') :
             i # j => targetSequence'[i] # targetSequence'[j]
        /\ currentSlots' = [i \in 1..n |-> NULL]]_vars

\* a request above the catalog length was clamped and shuffled
C11_Witness ==
  /\ gameSize > catalogSize
  /\ Len(targetSequence) = catalogSize
  /\ targetSequence[1] = BrandIds[catalogSize]
  /\ targetSequence[catalogSize] = BrandIds[1]

\* C12: selecting a level above the unlocked level changes nothing, and
\* selecting an unlocked one starts that level; a first win at the default
\* difficulty with the default unlocked level opens exactly the next level.
C12_LockedLevelRejected ==
  [][/\ \A level \in MenuLevels : handleSelectLevel(level) =>
          IF level > maxUnlockedLevel
            THEN UNCHANGED appVars
            ELSE gameSize' = level /\ gameStatus' = "playing"
     /\ (FullMatchConfirm /\ gameSize = DEFAULT_GAME_SIZE
           /\ maxUnlockedLevel = DEFAULT_GAME_SIZE)
          => maxUnlockedLevel' = DEFAULT_GAME_SIZE + 1]_vars

\* after one win at the default difficulty the next level was selected, and
\* the menu is open again with the level after it still locked
C12_Witness ==
  /\ showLevelMenu
  /\ records # <<>>
  /\ gameSize = DEFAULT_GAME_SIZE + 1
  /\ maxUnlockedLevel = DEFAULT_GAME_SIZE + 1
  /\ storedMaxLevel = toString(DEFAULT_GAME_SIZE + 1)
  /\ maxUnlockedLevel < catalogSize

\* C13: a retry after a win empties the history, installs an all-empty
\* board of gameSize slots and a newly generated target, and sets the
\* status to playing; the status becomes won only in a game whose history
\* holds a full-match confirm.
C13_RetryStartsFreshGame ==
  [][/\ handleRetryLevel =>
          /\ history' = <<>>
          /\ currentSlots' = [i \in 1..gameSize |-> NULL]
          /\ targetSequence' \in Shuffle(activeBrands)
          /\ gameStatus' = "playing"
     /\ (gameStatus = "playing" /\ gameStatus' = "won") =>
          \E k \in 1..Len(history) : history[k].correctCount = gameSize]_vars

\* the record the callback at the head of the queue writes
HeadRecord ==
  [attempts |-> Head(timers).attempts,
   durationSeconds |-> Head(timers).durationSeconds,
   difficulty |-> Head(timers).difficulty,
   targetSequence |-> Head(timers).targetSequence]

\* C14: while the win callback of a full-match confirm is pending, the
\* status won follows; the callback leaves the record of its game in the
\* records, in memory and persisted; and no later step, another pending
\* callback included, takes a record out again.
C14_WinEventuallyRecorded ==
  /\ (timers # <<>>) ~> (gameStatus = "won")
  /\ [][WinCallback =>
          /\ HeadRecord \in Range(records')
          /\ storedRecords'.kind = "array"
          /\ HeadRecord \in Range(storedRecords'.value)]_vars
  /\ [][/\ Range(records) \subseteq Range(records')
        /\ storedRecords.kind = "array" =>
             Range(storedRecords.value) \subseteq Range(storedRecords'.value)]_vars

\* C15: storage faults abort neither startup nor play. The mount effect
\* ends with the component mounted and a game of the default difficulty
\* installed, with an empty records list when the records key could not be
\* read or parsed to a list; a full-match confirm sets the progression in
\* memory and its win callback whether or not the write succeeds, and the
\* callback sets the status won and the record in memory.
C15_PersistenceFailuresTolerated ==
  /\ [][MountEffect =>
          /\ mountState' = "mounted"
          /\ Len(targetSequence') = DEFAULT_GAME_SIZE
          /\ currentSlots' = [i \in 1..DEFAULT_GAME_SIZE |-> NULL]
          /\ (storage = "unavailable" \/ storedRecords.kind # "array")
               => (records' = <<>> /\ recordsShape' = "array")
          /\ (storage = "unavailable" \/ storedMaxLevel = <<>>
                \/ parseInt(storedMaxLevel).nan)
               => maxUnlockedLevel' = DEFAULT_GAME_SIZE]_vars
  /\ [][FullMatchConfirm =>
          /\ maxUnlockedLevel' = NextMaxLevel(gameSize, maxUnlockedLevel)
          /\ Len(timers') = Len(timers) + 1]_vars
  /\ [][WinCallback =>
          /\ gameStatus' = "won"
          /\ HeadRecord \in Range(records')]_vars

\* C16: whatever the two keys hold at startup, after the mount effect the
\* records are a list, empty when the stored records are absent or are not
\* the text of a list, and the unlocked level is the default when the
\* stored level is absent or no number.
C16_StartupDefaults ==
  [][MountEffect =>
       /\ recordsShape' = "array"
       /\ storedRecords.kind # "array" => records' = <<>>
       /\ (storedMaxLevel = <<>> \/ parseInt(storedMaxLevel).nan)
            => maxUnlockedLevel' = DEFAULT_GAME_SIZE]_vars

\* a step in which a handler passes its gesture to executeMove
ExecuteMoveStep ==
  \/ \E t \in 0..(Len(BRANDS) - 1) : handleDropOnSlot(t)
  \/ handleDropOnInventory
  \/ \E target \in TouchTargets : handleTouchEnd(target)

\* C17: every step that changes the board is a call of executeMove or a
\* game initialisation.
C17_BoardWrittenOnlyByExecutor ==
  [][currentSlots' # currentSlots => (ExecuteMoveStep \/ InitGameStep)]_vars

\* executeMove is called with item X, picked from the inventory, and slot i
InventoryToSlotMove(X, i) ==
  \/ /\ handleDropOnSlot(i)
     /\ gameStatus = "playing"
     /\ dataTransfer.source = "inventory"
     /\ dataTransfer.brandId = X
  \/ /\ handleTouchEnd([type |-> "slot", index |-> i])
     /\ touchDragItem.source = "inventory"
     /\ touchDragItem.brandId = X

\* C18: a move of inventory item X onto slot i leaves X in slot i and in
\* no other slot, every other slot as it was, X out of the inventory and
\* the item that slot i held, if any, in the inventory.
C18_InventoryToSlotOverwrites ==
  [][\A X \in Range(BRANDS), i \in 0..(Len(BRANDS) - 1) :
       InventoryToSlotMove(X, i) =>
         LET Y == ArrGet(currentSlots, i)
         IN /\ ArrGet(currentSlots', i) = X
            /\ \A j \in (0..(Len(BRANDS) - 1)) \ {i} :
                 ArrGet(currentSlots', j) = ArrGet(currentSlots, j)
            /\ (Y \in Range(BrandIds) /\ Y # X)
                 => Y \in Range(availableInventory')
            /\ X \notin Range(availableInventory')
            /\ Cardinality({j \in 1..Len(currentSlots') :
                              currentSlots'[j] = X}) = 1]_vars

\* executeMove is called with the can picked from slot i, and slot j
SlotToSlotMove(i, j) ==
  \/ /\ handleDropOnSlot(j)
     /\ gameStatus = "playing"
     /\ dataTransfer.source = "slot"
     /\ DropSourceIndex = i
  \/ /\ handleTouchEnd([type |-> "slot", index |-> j])
     /\ touchDragItem.source = "slot"
     /\ touchDragItem.index = i

\* C19: a move of slot i onto another slot j exchanges the contents the
\* two slots have when the move is executed and leaves every other slot
\* as it was.
C19_SlotToSlotSwaps ==
  [][\A i, j \in 0..(Len(BRANDS) - 1) :
       (i # j /\ SlotToSlotMove(i, j)) =>
         /\ ArrGet(currentSlots', j) = ArrGet(currentSlots, i)
         /\ ArrGet(currentSlots', i) = ArrGet(currentSlots, j)
         /\ \A k \in (0..(Len(BRANDS) - 1)) \ {i, j} :
              ArrGet(currentSlots', k) = ArrGet(currentSlots, k)]_vars

\* executeMove is called with the can picked from slot i, and the inventory
SlotToInventoryMove(i) ==
  \/ /\ handleDropOnInventory
     /\ gameStatus = "playing"
     /\ dataTransfer.source = "slot"
     /\ DropSourceIndex = i
  \/ /\ handleTouchEnd([type |-> "inventory", index |-> -1])
     /\ touchDragItem.source = "slot"
     /\ touchDragItem.index = i

\* executeMove is called with a can picked from the inventory, and the inventory
InventoryToInventoryMove ==
  \/ /\ handleDropOnInventory
     /\ gameStatus = "playing"
     /\ dataTransfer.source = "inventory"
  \/ /\ handleTouchEnd([type |-> "inventory", index |-> -1])
     /\ touchDragItem.source = "inventory"

PartialMatchConfirm ==
  /\ ConfirmClick
  /\ Len(history') = Len(history) + 1
  /\ Head(history').correctCount < gameSize

\* C21: a confirm with a match count below gameSize puts one entry in front
\* of the history and changes nothing else; in particular it sets no
\* delayed callback, so nothing changes later on its account.
C21_PartialConfirmFrame ==
  [][PartialMatchConfirm =>
       /\ Tail(history') = history
       /\ UNCHANGED <<gameSize, targetSequence, currentSlots, gameStatus,
                      records, maxUnlockedLevel, showWinModal, showLevelMenu,
                      touchDragItem, dataTransfer, timers, storedMaxLevel,
                      storedRecords>>]_vars

\* a partial match was confirmed in a game that is still being played
C21_Witness ==
  /\ history # <<>>
  /\ Head(history).correctCount < gameSize
  /\ Head(history).arrangement = currentSlots
  /\ gameStatus = "playing"
  /\ timers = <<>>

\* C22: the difficulty in play is between the default difficulty and the
\* catalog size in every state; it rises by a step only to a size the
\* catalog has, and a change never takes it below the default difficulty.
C22_GameSizeInBounds ==
  /\ [](DEFAULT_GAME_SIZE <= gameSize /\ gameSize <= catalogSize)
  /\ [][gameSize' # gameSize =>
          /\ DEFAULT_GAME_SIZE <= gameSize'
          /\ gameSize' <= catalogSize
          /\ (handleNextLevel \/ NextUnlockedLevel) =>
               (gameSize' = gameSize + 1 /\ gameSize + 1 <= catalogSize)]_vars

\* the highest difficulty was won: no next level is offered
C22_Witness ==
  /\ gameSize = catalogSize
  /\ WinModalOnTop

\* C24: the records change only when a win callback runs, and the record it
\* appends describes the game that becomes won: the length of its history,
\* its gameSize and its target.
C24_RecordDescribesWonGame ==
  [][/\ records' # records => WinCallback
     /\ WinCallback =>
          LET r == records'[Len(records')]
          IN /\ r.attempts = Len(history)
             /\ r.difficulty = gameSize
             /\ r.targetSequence = targetSequence
             /\ r.targetSequence \in Shuffle(Slice(BRANDS, r.difficulty))]_vars

\* C26: the difficulty in play is never above the unlocked level.
C26_GameSizeUnlocked == gameSize <= maxUnlockedLevel

\* C27: the unlocked level is between the default difficulty and the
\* catalog size, whatever integer the storage held at startup.
C27_MaxLevelInRange ==
  DEFAULT_GAME_SIZE <= maxUnlockedLevel /\ maxUnlockedLevel <= catalogSize

\* C28: every snapshot in the history has gameSize cells and holds each
\* active item exactly once, so no empty cell and no item twice.
C28_SnapshotsArePermutations ==
  \A k \in 1..Len(history) :
    /\ Len(history[k].arrangement) = gameSize
    /\ Range(history[k].arrangement) = Range(activeBrands)

\* C29: every match count in the history is between 0 and gameSize and is
\* not gameSize - 1.
C29_NoNearMiss ==
  \A k \in 1..Len(history) :
    /\ history[k].correctCount \in 0..gameSize
    /\ history[k].correctCount # gameSize - 1

\* C23: the elapsed time does not accumulate while the instructions modal or
\* the level menu is displayed: it stands still while the modal is up, and
\* in no step does it grow by more than the time that passes in that step,
\* so the seconds spent under a modal are not in it after the modal closes
C23_ElapsedExcludesModalTime ==
  [][/\ ((showInstructions \/ showLevelMenu) /\ (showInstructions' \/ showLevelMenu'))
          => elapsedTime' = elapsedTime
     /\ elapsedTime' <= elapsedTime + (now' - now)]_vars

\* a ranks no later than b: higher difficulty first, then fewer attempts,
\* then shorter duration
RanksNoLater(a, b) ==
  \/ a.difficulty > b.difficulty
  \/ a.difficulty = b.difficulty /\ a.attempts < b.attempts
  \/ /\ a.difficulty = b.difficulty
     /\ a.attempts = b.attempts
     /\ a.durationSeconds <= b.durationSeconds

\* how many times r occurs in list
Occurrences(list, r) == Cardinality({i \in 1..Len(list) : list[i] = r})

\* C25: the list the records modal shows is a permutation of the stored
\* records, ordered by difficulty descending, then attempts ascending, then
\* duration ascending, and computing it leaves the stored order unchanged
C25_SortedViewIsOrderedPermutation ==
  /\ [](recordsPanel.shown =>
         LET rows == recordsPanel.rows
         IN /\ Len(rows) = Len(records)
            /\ \A i \in 1..Len(records) :
                 Occurrences(rows, records[i]) = Occurrences(records, records[i])
            /\ \A i \in 1..Len(rows) : \A j \in i..Len(rows) :
                 RanksNoLater(rows[i], rows[j]))
  /\ [][OpenRecords => records' = records]_vars

\* the modal lists three stored records in another order than the stored one
C25_Witness ==
  /\ recordsPanel.shown
  /\ Len(records) = MaxSortLen
  /\ recordsPanel.rows # records
  /\ recordsPanel.rows[1] = records[MaxSortLen]

====
